---- MODULE Spec2Model ----
(***************************************************************************)
(* A model of the browser session of the "bring anything to life" app:     *)
(* the App component's state (history, activeCreation, isGenerating), the  *)
(* localStorage record it persists, the asynchronous generate/regenerate   *)
(* handlers with the video polling loop, the InputArea form and the        *)
(* import / reorder / select / reset handlers.                             *)
(*                                                                         *)
(* JavaScript values are modelled as follows.  A string is a sequence of   *)
(* tokens ("" is <<>>, a string is truthy iff it is not <<>>); tags that   *)
(* are only compared (type, mime type, blob url) are TLA+ strings.  An     *)
(* object is a record whose DOMAIN is the set of its own properties, so a  *)
(* missing property is a missing field.  A nullable reference is a         *)
(* sequence of length at most one.  A Date is its millisecond value, the   *)
(* Invalid Date is InvalidDate.                                            *)
(***************************************************************************)
EXTENDS Integers, Sequences, FiniteSets, TLC

VARIABLES
    history,         \* App: useState<Creation[]>
    activeCreation,  \* App: useState<Creation | null>, <<>> or <<c>>
    isGenerating,    \* App: useState(false)
    generationMode,  \* App: useState<GenerationMode>('app')
    storage,         \* localStorage['gemini_app_history']
    persisted,       \* outcome of the last run of the persist effect
    boot,            \* position of initHistory: "mount", "fetching", "done"
    mode,            \* InputArea: useState<GenerationMode>('app')
    prompt,          \* InputArea: useState('')
    stagedFile,      \* InputArea: useState<File | null>, <<>> or <<f>>
    tasks,           \* the handleGenerate / handleRegenerateVideo calls in progress
    returned,        \* the call that returned in the last step: <<>> or <<what it did>>
    alert,           \* the text the last step showed with window.alert, <<>> if none
    nextId,          \* the next value crypto.randomUUID() returns
    aistudio,        \* whether the host page provides window.aistudio
    ops,             \* how many generations, imports and reorders the user has asked for
    dragItem,        \* CreationHistory: useRef<number | null>, <<>> or <<index>>
    draggedIndex,    \* CreationHistory: useState<number | null>
    dragOverIndex,   \* CreationHistory: useState<number | null>
    grabbed          \* the creation the drag in progress was started on, <<>> if none

vars == <<history, activeCreation, isGenerating, generationMode, storage, persisted,
          boot, mode, prompt, stagedFile, tasks, returned, alert, nextId, aistudio, ops,
          dragItem, draggedIndex, dragOverIndex, grabbed>>

appVars == <<history, activeCreation, isGenerating, generationMode>>
inputVars == <<mode, prompt, stagedFile>>
dragVars == <<dragItem, draggedIndex, dragOverIndex, grabbed>>

----------------------------------------------------------------------------
(* Bounds of the model *)

MaxOps == 1     \* generate / regenerate calls, imports and reorders in one session
MaxPolls == 2   \* not-done reports one video job gives before it finishes
MaxCalls == 2   \* generate calls in a session that looks at calls in flight together

----------------------------------------------------------------------------
(* JavaScript objects *)

Has(o, f) == f \in DOMAIN o

\* const { f, ...rest } = o
Without(o, f) == [k \in DOMAIN o \ {f} |-> o[k]]

\* { ...a, ...b }
Spread(a, b) == [k \in DOMAIN a \cup DOMAIN b |-> IF k \in DOMAIN b THEN b[k] ELSE a[k]]

\* s.includes(phrase), for a phrase that is one token
Includes(s, phrase) == \E i \in DOMAIN s : s[i] = phrase

None == <<>>
Some(x) == <<x>>

----------------------------------------------------------------------------
(* Dates and their JSON form *)

InvalidDate == -1
Epoch == 0
\* Date.now()
Now == 1

JIso(ms) == [k |-> "iso", ms |-> ms]     \* "1970-01-01T00:00:00.001Z"
JNum(ms) == [k |-> "num", ms |-> ms]     \* a number of milliseconds
JNull == [k |-> "null", ms |-> 0]        \* null
JBad == [k |-> "bad", ms |-> 0]          \* a string that is no date

\* JSON truthiness of a timestamp value: null and 0 are falsy
JTruthy(j) == j.k \in {"iso", "bad"} \/ (j.k = "num" /\ j.ms # 0)

\* new Date(j)
NewDate(j) ==
    CASE j.k = "iso" -> j.ms
      [] j.k = "num" -> j.ms
      [] j.k = "null" -> Epoch
      [] OTHER -> InvalidDate

\* Date.prototype.toJSON, as JSON.stringify applies it: the Invalid Date becomes null
DateToJSON(d) == IF d = InvalidDate THEN JNull ELSE JIso(d)

----------------------------------------------------------------------------
(* Creations (CreationHistory.tsx, interface Creation) and sample data *)

\* An html document, and the data URL of an uploaded image
Doc == <<"<!DOCTYPE html>">>
DataUrl(mime, b64) == [mime |-> mime, b64 |-> b64]
Png == DataUrl("image/png", <<"iVBOR">>)

\* Creations a previous session of the app left in storage
SavedApp ==
    [id |-> 11, name |-> <<"sketch.png">>, timestamp |-> Epoch, type |-> "app",
     html |-> Doc, originalImage |-> Png]
SavedVideo ==
    [id |-> 12, name |-> <<"c">>, timestamp |-> Now, type |-> "video",
     videoUrl |-> "blob:previous-session"]

\* The three remote example files, as the JSON they hold
NumExamples == 3
ExampleData(i) ==
    [id |-> 20 + i, name |-> <<"example">>, timestamp |-> JIso(Epoch), type |-> "app",
     html |-> Doc]

\* { ...data, timestamp: new Date(data.timestamp || Date.now()), id: data.id || crypto.randomUUID() }
Revive(data, uuid) ==
    Spread(data,
           [timestamp |-> NewDate(IF Has(data, "timestamp") /\ JTruthy(data.timestamp)
                                  THEN data.timestamp ELSE JNum(Now)),
            id |-> IF Has(data, "id") /\ data.id # 0 THEN data.id ELSE uuid])

UsesUuid(data) == ~(Has(data, "id") /\ data.id # 0)

Ids(h) == {h[i].id : i \in DOMAIN h}

----------------------------------------------------------------------------
(* The persist effect and the startup load (App.tsx) *)

\* A persist effect that writes every field of an entry
StoredWithVideoUrl(c) == Spread(c, [timestamp |-> DateToJSON(c.timestamp)])

\* JSON.stringify of one history entry: videoUrl is left out, the Date becomes its JSON form
Stored(c) == Spread(Without(c, "videoUrl"), [timestamp |-> DateToJSON(c.timestamp)])

Serialize(h) == [i \in 1..Len(h) |-> Stored(h[i])]

StorageNone == [kind |-> "none", items |-> <<>>]
StorageCorrupt == [kind |-> "corrupt", items |-> <<>>]
StorageArray(items) == [kind |-> "array", items |-> items]

\* useEffect(..., [history]): runs after a render in which history is a new array
PersistEffect(h) ==
    IF Len(h) > 0
    THEN \E ok \in BOOLEAN :
            IF ok
            THEN storage' = StorageArray(Serialize(h)) /\ persisted' = "ok"
            ELSE UNCHANGED storage /\ persisted' = "failed"
    ELSE UNCHANGED storage /\ persisted' = "none"

\* parsed.map(item => ({ ...item, timestamp: new Date(item.timestamp) }))
LoadItem(item) ==
    Spread(item, [timestamp |-> IF Has(item, "timestamp")
                                THEN NewDate(item.timestamp) ELSE InvalidDate])

LoadedHistory(saved) ==
    IF saved.kind = "array"
    THEN [i \in 1..Len(saved.items) |-> LoadItem(saved.items[i])]
    ELSE <<>>

\* initHistory up to its first await
InitHistory ==
    /\ boot = "mount"
    /\ LET loadedHistory == LoadedHistory(storage) IN
        IF Len(loadedHistory) > 0
        THEN /\ history' = loadedHistory
             /\ boot' = "done"
             /\ PersistEffect(loadedHistory)
        ELSE /\ boot' = "fetching"
             /\ UNCHANGED <<history, storage, persisted>>
    /\ (UNCHANGED <<activeCreation, isGenerating, generationMode, inputVars, tasks, nextId, aistudio, dragVars, ops>> /\ alert' = <<>> /\ returned' = None)

\* The uuids the examples without an id of their own get, in order
UuidOf(results, i) ==
    nextId + Cardinality({j \in 1..(i - 1) : results[j] = "ok" /\ UsesUuid(ExampleData(j))})

RECURSIVE Examples(_, _)
Examples(results, i) ==
    IF i > NumExamples THEN <<>>
    ELSE (IF results[i] = "ok"
          THEN <<Revive(ExampleData(i), UuidOf(results, i))>> ELSE <<>>)
         \o Examples(results, i + 1)

\* How the three fetches may end
ExampleResults == [1..NumExamples -> {"ok", "notok", "throw"}]

\* initHistory after Promise.all settles: results[i] is "ok", "notok" (res.ok false)
\* or "throw" (fetch or res.json() rejected)
ExamplesSettled(results) ==
    /\ boot = "fetching"
    /\ boot' = "done"
    /\ IF \E i \in 1..NumExamples : results[i] = "throw"
       THEN UNCHANGED <<history, storage, persisted, nextId>>
       ELSE /\ history' = Examples(results, 1)
            /\ nextId' = UuidOf(results, NumExamples + 1)
            /\ PersistEffect(history')
    /\ (UNCHANGED <<activeCreation, isGenerating, generationMode, inputVars, tasks, aistudio, dragVars, ops>> /\ alert' = <<>> /\ returned' = None)

----------------------------------------------------------------------------
(* History handlers of App.tsx *)

isFocused == activeCreation # None \/ isGenerating

PermutationsOf(h) ==
    LET n == Len(h)
        bij == {f \in [1..n -> 1..n] : \A i, j \in 1..n : f[i] = f[j] => i = j}
    IN {[i \in 1..n |-> h[f[i]]] : f \in bij}

\* A reorder that loses the entry dragged to the end
ReorderDroppingLast(newHistory) ==
    /\ history' = SubSeq(newHistory, 1, Len(newHistory) - 1)
    /\ PersistEffect(history')
    /\ UNCHANGED <<activeCreation, isGenerating, generationMode>>

handleReorderHistory(newHistory) ==
    /\ history' = newHistory
    /\ PersistEffect(newHistory)
    /\ UNCHANGED <<activeCreation, isGenerating, generationMode>>

\* The archive strip submits a reordering of the history it shows
Reorder ==
    /\ boot # "mount"
    /\ ~isFocused
    /\ ops < MaxOps
    /\ Len(history) >= 2
    /\ \E newHistory \in PermutationsOf(history) : handleReorderHistory(newHistory)
    /\ ops' = ops + 1
    /\ (UNCHANGED <<boot, inputVars, tasks, nextId, aistudio, dragVars>> /\ alert' = <<>> /\ returned' = None)

\* An entry that splice took from beyond the end of the array
Undefined == [undefined |-> TRUE]

\* newHistory = [...history]; [draggedItem] = newHistory.splice(from, 1);
\* newHistory.splice(to, 0, draggedItem), with positions counted from 1
Moved(h, from, to) ==
    LET draggedItem == IF from <= Len(h) THEN h[from] ELSE Undefined
        rest == SubSeq(h, 1, from - 1) \o SubSeq(h, from + 1, Len(h))
        at == IF to - 1 < Len(rest) THEN to - 1 ELSE Len(rest)
    IN SubSeq(rest, 1, at) \o <<draggedItem>> \o SubSeq(rest, at + 1, Len(rest))

handleDragStart(index) ==
    /\ dragItem' = Some(index)
    /\ draggedIndex' = Some(index)
    /\ grabbed' = Some(history[index])
    /\ UNCHANGED dragOverIndex

handleDragEnter(index) ==
    /\ dragOverIndex' = IF draggedIndex # None /\ Some(index) # draggedIndex
                        THEN Some(index) ELSE dragOverIndex
    /\ UNCHANGED <<dragItem, draggedIndex, grabbed>>

handleDragLeave ==
    /\ dragOverIndex' = None
    /\ UNCHANGED <<dragItem, draggedIndex, grabbed>>

handleDragEnd ==
    /\ IF dragItem # None /\ dragOverIndex # None /\ dragItem # dragOverIndex
       THEN handleReorderHistory(Moved(history, dragItem[1], dragOverIndex[1]))
       ELSE UNCHANGED <<appVars, storage, persisted>>
    /\ dragItem' = None
    /\ draggedIndex' = None
    /\ dragOverIndex' = None
    /\ grabbed' = None

\* What no event of a drag touches
DragFrame ==
    /\ UNCHANGED <<boot, inputVars, tasks, nextId, aistudio, ops>>
    /\ alert' = <<>>
    /\ returned' = None

\* The user starts to drag an entry of the archive strip; the strip takes pointer events
\* only while the page is not focused on the preview
DragStart ==
    /\ boot # "mount"
    /\ ~isFocused
    /\ dragItem = None
    /\ \E index \in DOMAIN history : handleDragStart(index)
    /\ UNCHANGED <<appVars, storage, persisted>>
    /\ DragFrame

\* The pointer of the drag comes over an entry
DragEnter ==
    /\ dragItem # None
    /\ ~isFocused
    /\ \E index \in DOMAIN history : handleDragEnter(index)
    /\ UNCHANGED <<appVars, storage, persisted>>
    /\ DragFrame

\* The pointer of the drag leaves the entry it was over
DragLeave ==
    /\ dragItem # None
    /\ dragOverIndex # None
    /\ ~isFocused
    /\ handleDragLeave
    /\ UNCHANGED <<appVars, storage, persisted>>
    /\ DragFrame

\* The user lets go: dragend is sent to the entry the drag started on
DragEnd ==
    /\ dragItem # None
    /\ handleDragEnd
    /\ DragFrame

handleSelectCreation(creation) ==
    /\ activeCreation' = Some(creation)
    /\ UNCHANGED <<history, isGenerating, generationMode>>

Select ==
    /\ boot # "mount"
    /\ ~isFocused
    /\ \E i \in DOMAIN history : handleSelectCreation(history[i])
    /\ (UNCHANGED <<storage, persisted, boot, inputVars, tasks, nextId, aistudio, dragVars, ops>> /\ alert' = <<>> /\ returned' = None)

handleReset ==
    /\ activeCreation' = None
    /\ isGenerating' = FALSE
    /\ UNCHANGED <<history, generationMode>>

\* The preview's close button (always shown while focused) and its New button
Reset ==
    /\ boot # "mount"
    /\ isFocused
    /\ handleReset
    /\ (UNCHANGED <<storage, persisted, boot, inputVars, tasks, nextId, aistudio, dragVars, ops>> /\ alert' = <<>> /\ returned' = None)

----------------------------------------------------------------------------
(* Import (App.tsx, handleImportFile) *)

\* The text of an import file: not JSON, the JSON null, or a JSON object
FileText(kind, obj) == [kind |-> kind, obj |-> obj]

StrTruthy(o, f) == Has(o, f) /\ o[f] # <<>>
TagTruthy(o, f) == Has(o, f) /\ o[f] # ""

\* A validation that asks for a name only
ValidFormatNameOnly(parsed) == StrTruthy(parsed, "name")

\* (parsed.html || parsed.videoUrl) && parsed.name && parsed.type
ValidFormat(parsed) ==
    /\ StrTruthy(parsed, "html") \/ TagTruthy(parsed, "videoUrl")
    /\ StrTruthy(parsed, "name")
    /\ TagTruthy(parsed, "type")

\* An import that does not look for the id in history
AddImportedAlways(prev, importedCreation) == <<importedCreation>> \o prev

\* An import that looks for the id at the front of history only
AddImportedUnlessFirst(prev, importedCreation) ==
    IF prev # <<>> /\ prev[1].id = importedCreation.id
    THEN prev
    ELSE <<importedCreation>> \o prev

\* setHistory(prev => exists ? prev : [importedCreation, ...prev])
AddImported(prev, importedCreation) ==
    IF \E i \in DOMAIN prev : prev[i].id = importedCreation.id
    THEN prev
    ELSE <<importedCreation>> \o prev

\* reader.onload of handleImportFile
handleImportFile(text) ==
    IF text.kind # "object"
    THEN \* JSON.parse throws, or a property of null is read
         /\ alert' = <<"Failed to import creation.">>
         /\ UNCHANGED <<appVars, storage, persisted, nextId>>
    ELSE IF ValidFormat(text.obj)
    THEN LET importedCreation == Revive(text.obj, nextId)
             newHistory == AddImported(history, importedCreation) IN
         /\ history' = newHistory
         /\ activeCreation' = Some(importedCreation)
         /\ nextId' = IF UsesUuid(text.obj) THEN nextId + 1 ELSE nextId
         /\ IF newHistory # history
            THEN PersistEffect(newHistory) ELSE UNCHANGED <<storage, persisted>>
         /\ (UNCHANGED <<isGenerating, generationMode>> /\ alert' = <<>>)
    ELSE /\ alert' = <<"Invalid creation file format.">>
         /\ UNCHANGED <<appVars, storage, persisted, nextId>>

\* handleExport of the preview: JSON.stringify of the creation without its videoUrl
handleExport(creation) ==
    FileText("object", Spread(Without(creation, "videoUrl"),
                              [timestamp |-> DateToJSON(creation.timestamp)]))

\* The user exports the creation shown (the button is there when nothing is loading)
\* and picks the downloaded file with the import button
ExportImport ==
    /\ boot # "mount"
    /\ ~isGenerating
    /\ activeCreation # None
    /\ handleImportFile(handleExport(activeCreation[1]))
    /\ UNCHANGED <<boot, inputVars, tasks, aistudio, dragVars, ops>>
    /\ returned' = None

\* The JSON objects the user may pick: artifacts with and without each required field
ImportObjects ==
    { [name |-> <<"art">>, type |-> "app", html |-> Doc],
      [name |-> <<"art">>, type |-> "app", html |-> Doc, timestamp |-> JBad],
      [name |-> <<"clip">>, type |-> "video", videoUrl |-> "blob:stale"],
      [name |-> <<"clip">>, type |-> "video"],
      [type |-> "app", html |-> Doc],
      [name |-> <<"art">>, html |-> Doc],
      [name |-> <<>>, type |-> "app", html |-> Doc] }

\* ... each with no id, with the id of a creation in history, or with an id of its own
ImportTexts(h, objects) ==
    {FileText("syntax error", <<>>), FileText("null", <<>>)}
    \cup {FileText("object", o) : o \in objects}
    \cup {FileText("object", Spread(o, [id |-> i])) : o \in objects, i \in Ids(h) \cup {31}}

\* The user picks a file with the import button, which is always shown
Import(objects) ==
    /\ boot # "mount"
    /\ ops < MaxOps
    /\ \E text \in ImportTexts(history, objects) : handleImportFile(text)
    /\ ops' = ops + 1
    /\ (UNCHANGED <<boot, inputVars, tasks, aistudio, dragVars>> /\ returned' = None)

----------------------------------------------------------------------------
(* The generation service (CreationHistory.tsx, bringToLife / bringToLifeAsVideo) *)

IsSpace(c) == c \in {" ", "\n"}

RECURSIVE DropSpace(_)
\* the \s* of a regular expression, at the start of s
DropSpace(s) == IF s # <<>> /\ IsSpace(Head(s)) THEN DropSpace(Tail(s)) ELSE s

StartsWith(s, p) == Len(s) >= Len(p) /\ SubSeq(s, 1, Len(p)) = p

\* The code fence marker, three backquotes
Fence == "[fence]"

\* text.replace(/^[fence]html\s*/, '').replace(/^[fence]\s*/, '').replace(/[fence]$/, '')
StripFence(text) ==
    LET a == IF StartsWith(text, <<Fence, "html">>)
             THEN DropSpace(SubSeq(text, 3, Len(text))) ELSE text
        b == IF StartsWith(a, <<Fence>>) THEN DropSpace(Tail(a)) ELSE a
    IN IF b # <<>> /\ b[Len(b)] = Fence THEN SubSeq(b, 1, Len(b) - 1) ELSE b

\* response.text || "<!-- Failed to generate content -->", then the fences are stripped
AppHtml(responseText) ==
    StripFence(IF responseText # <<>> THEN responseText
               ELSE <<"<!-- Failed to generate content -->">>)

\* What generateContent may answer
RawResponses ==
    { Doc,
      <<Fence, "html", "\n">> \o Doc \o <<"\n", Fence>>,
      <<Fence, "html", "\n", Fence>>,
      <<>> }

\* Thrown values: an Error with its message, or an event object that has none
Error(message) == [isError |-> TRUE, message |-> message]
ProgressEvent == [isError |-> FALSE]

EntityNotFound == "Requested entity was not found."
ApiKeyNotFound == "API key not found"

\* What the transport (generateContent, generateVideos, getVideosOperation) may throw
TransportErrors ==
    { Error(<<"Failed to fetch">>),
      Error(<<"{\"error\":{\"code\":404,\"message\":\"", EntityNotFound, "\"}}">>) }

\* A video operation as the service reports it
Pending == [done |-> FALSE]
Failed(message) == [done |-> TRUE, state |-> "FAILED", error |-> message]
FailedNoMessage == [done |-> TRUE, state |-> "FAILED"]
Succeeded == [done |-> TRUE, uri |-> "https://video"]
NoLink == [done |-> TRUE]

JobMessages == {<<"quota">>, <<EntityNotFound>>}

Reports == {Pending, FailedNoMessage, Succeeded, NoLink} \cup {Failed(m) : m \in JobMessages}

\* A catch block that rethrows what it caught
RethrownAsIs(error) == error

\* The catch block of bringToLifeAsVideo: what it rethrows for a caught error
Rethrown(error) ==
    IF error.isError /\ Includes(error.message, EntityNotFound)
    THEN Error(<<ApiKeyNotFound, ". Please re-select your API key and try again.">>)
    ELSE error

\* A poller that takes every operation that is done and has not failed for a video
AfterLoopWithoutLinkCheck(operation) ==
    IF Has(operation, "state") /\ operation.state = "FAILED"
    THEN Some(Error(<<"Video generation failed: ">>))
    ELSE None

\* After the polling loop: the error a done operation makes bringToLifeAsVideo throw,
\* or None when it goes on to fetch the video file
AfterLoop(operation) ==
    IF Has(operation, "state") /\ operation.state = "FAILED"
    THEN Some(Error(<<"Video generation failed: ">>
                    \o (IF Has(operation, "error") THEN operation.error ELSE <<"undefined">>)))
    ELSE IF ~Has(operation, "uri")
    THEN Some(Error(<<"Video generation succeeded, but no download link was found.">>))
    ELSE None

\* What the awaited calls of one session may answer: the texts generateContent returns,
\* the errors the transport throws, the operations the video service reports, and the
\* errors of fileToBase64 and of the video download
Service(responses, errors, reports, convertErrors, downloadErrors) ==
    [responses |-> responses, errors |-> errors, reports |-> reports,
     convertErrors |-> convertErrors, downloadErrors |-> downloadErrors]

AnyService ==
    Service(RawResponses, TransportErrors, Reports,
            {Error(<<"Failed to convert file to base64">>), ProgressEvent},
            {Error(<<"Failed to download video file: ", "Forbidden">>),
             Error(<<"Failed to fetch">>)})

MaxLen == 3   \* tokens in a response of the service that answers with any text

\* Every text of at most n tokens: fences, the word html, line ends and markup
Texts(n) == UNION {[1..k -> {Fence, "html", "\n", "<p>"}] : k \in 0..n}

\* A service that answers an app request with any short text
FenceService ==
    Service(Texts(MaxLen), {Error(<<"Failed to fetch">>)}, {Succeeded},
            {ProgressEvent}, {Error(<<"Failed to fetch">>)})

\* A service that answers, is slow at most, and fails in the plainest way only
CalmService ==
    Service({Doc}, {Error(<<"Failed to fetch">>)}, {Pending, Succeeded},
            {ProgressEvent}, {Error(<<"Failed to fetch">>)})

----------------------------------------------------------------------------
(* handleGenerate and handleRegenerateVideo (App.tsx).  Each call is a task; its pc   *)
(* names the await it is suspended at: "convert" (fileToBase64), "keycheck"           *)
(* (window.aistudio), "request" (generateContent), "submit" (generateVideos), "poll"  *)
(* (the 10 second delay and getVideosOperation), "download" (fetch of the video).     *)

NameLimit == 30

Take(s, n) == SubSeq(s, 1, IF Len(s) < n THEN Len(s) ELSE n)

NewTask(kind, m, pc, promptText, file, image, base) ==
    [kind |-> kind, mode |-> m, pc |-> pc, prompt |-> promptText, file |-> file,
     image |-> image, base |-> base, operation |-> None, delays |-> 0, pendings |-> 0,
     rejection |-> None, response |-> None]

\* The task whose awaited call rejected with error: what the try block sees thrown
Threw(task, error) == [task EXCEPT !.rejection = Some([at |-> task.pc, error |-> error])]

\* window.aistudio.openSelectKey() is called by the catch block
Reselects(error) ==
    Has(error, "message") /\ Includes(error.message, ApiKeyNotFound) /\ aistudio

\* What a call that returns leaves behind: how it ended, the error its catch block got,
\* whether that block opened the key dialog, the awaited call that rejected, the text
\* generateContent answered, and the operation and the delays of its poller
Done(task, outcome, error) ==
    [kind |-> task.kind, mode |-> task.mode, outcome |-> outcome, error |-> error,
     reselect |-> error # None /\ Reselects(error[1]), rejection |-> task.rejection,
     response |-> task.response,
     operation |-> task.operation, delays |-> task.delays, pendings |-> task.pendings]

Remove(seq, t) == SubSeq(seq, 1, t - 1) \o SubSeq(seq, t + 1, Len(seq))

Return(t, task, outcome, error) ==
    /\ tasks' = Remove(tasks, t)
    /\ returned' = Some(Done(task, outcome, error))

\* The await after file conversion
AfterConvert(m) ==
    IF m = "video" THEN (IF aistudio THEN "keycheck" ELSE "submit") ELSE "request"

handleGenerate(promptText, file, m) ==
    /\ isGenerating' = TRUE
    /\ generationMode' = m
    /\ activeCreation' = None
    /\ tasks' = Append(tasks, NewTask("generate", m,
                                      IF file # None THEN "convert" ELSE AfterConvert(m),
                                      promptText, file, None, None))
    /\ (UNCHANGED <<history, storage, persisted, nextId>> /\ alert' = <<>> /\ returned' = None)

\* A regenerate that clears the active creation as generate does
RegenerateClearingActive(newPrompt, originalCreation) ==
    /\ isGenerating' = TRUE
    /\ generationMode' = "video"
    /\ activeCreation' = None
    /\ tasks' = Append(tasks, NewTask("regenerate", "video",
                                      IF aistudio THEN "keycheck" ELSE "submit",
                                      newPrompt, None, None, Some(originalCreation)))
    /\ UNCHANGED <<history, storage, persisted, nextId>>
    /\ alert' = <<>>
    /\ returned' = None

handleRegenerateVideo(newPrompt, originalCreation) ==
    /\ isGenerating' = TRUE
    /\ generationMode' = "video"
    /\ tasks' = Append(tasks, NewTask("regenerate", "video",
                                      IF aistudio THEN "keycheck" ELSE "submit",
                                      newPrompt, None,
                                      IF Has(originalCreation, "originalImage")
                                      THEN Some(originalCreation.originalImage) ELSE None,
                                      Some(originalCreation)))
    /\ (UNCHANGED <<history, activeCreation, storage, persisted, nextId>> /\ alert' = <<>> /\ returned' = None)

\* The newCreation of handleGenerate, without its html or videoUrl
NewCreation(task) ==
    LET name == IF task.file # None /\ task.file[1].name # <<>> THEN task.file[1].name
                ELSE IF Take(task.prompt, NameLimit) # <<>> THEN Take(task.prompt, NameLimit)
                ELSE <<"New Creation">>
        draft == [name |-> name, type |-> task.mode]
    IN IF task.image # None /\ task.image[1].b64 # <<>> /\ task.image[1].mime # ""
       THEN Spread(draft, [originalImage |-> task.image[1]]) ELSE draft

\* The creation a task makes of the html or the blob url it got
CreationOf(task, field, value) ==
    LET made == [id |-> nextId, timestamp |-> Now] IN
    IF task.kind = "generate"
    THEN Spread(Spread(NewCreation(task), field :> value), made)
    ELSE Spread(Spread(IF Has(task.base[1], "originalImage")
                       THEN [originalImage |-> task.base[1].originalImage] ELSE <<>>,
                       [type |-> "video", name |-> task.prompt]),
                Spread(field :> value, made))

\* A handler that writes the history itself, inside its try block: a write that fails
\* is caught as a failure of the generation
CreatedUnlessWriteFails(t, task, creation) ==
    \/ /\ activeCreation' = Some(creation)
       /\ history' = <<creation>> \o history
       /\ storage' = StorageArray(Serialize(history'))
       /\ persisted' = "ok"
       /\ nextId' = nextId + 1
       /\ Return(t, task, "created", None)
       /\ isGenerating' = FALSE
       /\ UNCHANGED generationMode
       /\ alert' = <<>>
    \/ /\ alert' = <<"Something went wrong: ", "QuotaExceededError">>
       /\ persisted' = "failed"
       /\ Return(t, task, "failed", Some(Error(<<"QuotaExceededError">>)))
       /\ isGenerating' = FALSE
       /\ UNCHANGED <<history, activeCreation, generationMode, storage, nextId>>

\* A handler that puts the new creation at the end of history
CreatedAtEnd(t, task, creation) ==
    /\ activeCreation' = Some(creation)
    /\ history' = Append(history, creation)
    /\ PersistEffect(history')
    /\ nextId' = nextId + 1
    /\ Return(t, task, "created", None)
    /\ isGenerating' = FALSE
    /\ UNCHANGED generationMode
    /\ alert' = <<>>

\* setActiveCreation(creation); setHistory(prev => [creation, ...prev]); finally
Created(t, task, creation) ==
    /\ activeCreation' = Some(creation)
    /\ history' = <<creation>> \o history
    /\ PersistEffect(history')
    /\ nextId' = nextId + 1
    /\ Return(t, task, "created", None)
    /\ isGenerating' = FALSE
    /\ (UNCHANGED <<generationMode>> /\ alert' = <<>>)

\* if (html) is false: nothing is created and nothing is shown; finally
Nothing(t, task) ==
    /\ Return(t, task, "nothing", None)
    /\ isGenerating' = FALSE
    /\ (UNCHANGED <<history, activeCreation, generationMode, storage, persisted, nextId>> /\ alert' = <<>>)

\* A catch block that sends the video job again after the credential error
CatchRetrying(t, task, error) ==
    IF Has(error, "message") /\ Includes(error.message, ApiKeyNotFound)
    THEN /\ tasks' = [tasks EXCEPT ![t] = [task EXCEPT !.pc = "submit"]]
         /\ UNCHANGED <<appVars, storage, persisted, nextId>>
         /\ alert' = <<>>
         /\ returned' = None
    ELSE /\ alert' = <<"Something went wrong: ">>
                     \o (IF Has(error, "message") /\ error.message # <<>>
                         THEN error.message ELSE <<"Please try again.">>)
         /\ Return(t, task, "failed", Some(error))
         /\ isGenerating' = FALSE
         /\ UNCHANGED <<history, activeCreation, generationMode, storage, persisted, nextId>>

\* A catch block that is not followed by the finally block
CatchWithoutFinally(t, task, error) ==
    /\ alert' = <<"Something went wrong: ">>
    /\ Return(t, task, "failed", Some(error))
    /\ UNCHANGED <<appVars, storage, persisted, nextId>>

\* catch (error) { alert(...); if (error.message.includes(...)) ... } finally { ... }
Catch(t, task, error) ==
    /\ alert' = <<IF task.kind = "generate" THEN "Something went wrong: "
                  ELSE "Something went wrong during regeneration: ">>
                \o (IF Has(error, "message") /\ error.message # <<>>
                    THEN error.message ELSE <<"Please try again.">>)
    /\ Return(t, task, "failed", Some(error))
    /\ isGenerating' = FALSE
    /\ UNCHANGED <<history, activeCreation, generationMode, storage, persisted, nextId>>

Resume(t, task) ==
    /\ tasks' = [tasks EXCEPT ![t] = task]
    /\ (UNCHANGED <<appVars, storage, persisted, nextId>> /\ alert' = <<>> /\ returned' = None)

\* fileToBase64 settles
FileConverted(t, svc) ==
    /\ tasks[t].pc = "convert"
    /\ \/ Resume(t, [tasks[t] EXCEPT !.pc = AfterConvert(tasks[t].mode),
                                     !.image = Some(DataUrl(tasks[t].file[1].type,
                                                            tasks[t].file[1].b64))])
       \/ \E error \in svc.convertErrors : Catch(t, Threw(tasks[t], error), error)

\* hasSelectedApiKey (and openSelectKey when no key is selected) settles
KeyChecked(t) ==
    /\ tasks[t].pc = "keycheck"
    /\ \/ Resume(t, [tasks[t] EXCEPT !.pc = "submit"])
       \/ LET error == Error(<<"The key selection failed.">>) IN
          Catch(t, Threw(tasks[t], error), error)

\* generateContent settles
AppResponded(t, svc) ==
    /\ tasks[t].pc = "request"
    /\ \/ \E text \in svc.responses :
             LET html == AppHtml(text)
                 task == [tasks[t] EXCEPT !.response = Some(text)]
             IN IF html # <<>>
                THEN Created(t, task, CreationOf(task, "html", html))
                ELSE Nothing(t, task)
       \/ \E error \in svc.errors : Catch(t, Threw(tasks[t], error), error)

\* A poller that gives a job up at its second report that is not done
ReportedGivingUp(t, task, operation) ==
    LET got == [task EXCEPT !.operation = Some(operation)] IN
    IF ~operation.done
    THEN IF task.pendings >= 1
         THEN Catch(t, got, Error(<<"Video generation timed out.">>))
         ELSE Resume(t, [got EXCEPT !.pc = "poll", !.pendings = @ + 1])
    ELSE IF AfterLoop(operation) # None
    THEN Catch(t, got, Rethrown(AfterLoop(operation)[1]))
    ELSE Resume(t, [got EXCEPT !.pc = "download"])

\* bringToLifeAsVideo with the operation it just got: loop on, throw, or fetch the video
Reported(t, task, operation) ==
    LET got == [task EXCEPT !.operation = Some(operation)] IN
    IF ~operation.done
    THEN /\ task.pendings < MaxPolls
         /\ Resume(t, [got EXCEPT !.pc = "poll", !.pendings = @ + 1])
    ELSE IF AfterLoop(operation) # None
    THEN Catch(t, got, Rethrown(AfterLoop(operation)[1]))
    ELSE Resume(t, [got EXCEPT !.pc = "download"])

\* generateVideos settles
VideoSubmitted(t, svc) ==
    /\ tasks[t].pc = "submit"
    /\ \/ \E operation \in svc.reports : Reported(t, tasks[t], operation)
       \/ \E error \in svc.errors : Catch(t, Threw(tasks[t], error), Rethrown(error))

\* One turn of the loop: the 10 second delay, then getVideosOperation settles
VideoPolled(t, svc) ==
    /\ tasks[t].pc = "poll"
    /\ LET task == [tasks[t] EXCEPT !.delays = @ + 1] IN
       \/ \E operation \in svc.reports : Reported(t, task, operation)
       \/ \E error \in svc.errors : Catch(t, Threw(task, error), Rethrown(error))

\* fetch of the video file (and videoRes.blob()) settles
VideoDownloaded(t, svc) ==
    /\ tasks[t].pc = "download"
    /\ \/ Created(t, tasks[t], CreationOf(tasks[t], "videoUrl", "blob:video"))
       \/ \E error \in svc.downloadErrors :
             Catch(t, Threw(tasks[t], error), Rethrown(error))

TaskStep(svc) ==
    /\ \E t \in DOMAIN tasks :
          \/ FileConverted(t, svc)
          \/ KeyChecked(t)
          \/ AppResponded(t, svc)
          \/ VideoSubmitted(t, svc)
          \/ VideoPolled(t, svc)
          \/ VideoDownloaded(t, svc)
    /\ UNCHANGED <<boot, inputVars, aistudio, dragVars, ops>>

----------------------------------------------------------------------------
(* The input form (InputArea.tsx) and the preview's regenerate control (LivePreview.tsx) *)

RECURSIVE DropSpaceEnd(_)
DropSpaceEnd(s) ==
    IF s # <<>> /\ IsSpace(s[Len(s)]) THEN DropSpaceEnd(SubSeq(s, 1, Len(s) - 1)) ELSE s

\* s.trim()
Trim(s) == DropSpaceEnd(DropSpace(s))

Prompts == {<<>>, <<" ">>, <<"c">>}

PngFile == [name |-> <<"sketch.png">>, type |-> "image/png", b64 |-> <<"iVBOR">>]
TextFile == [name |-> <<"notes.txt">>, type |-> "text/plain", b64 |-> <<"aGk=">>]

\* file.type.startsWith('image/') || file.type === 'application/pdf'
Accepted(file) == file.type \in {"image/png", "image/jpeg", "application/pdf"}

\* The form reacts only while the page is not focused on the preview
FormEnabled == boot # "mount" /\ ~isFocused

SetMode ==
    /\ FormEnabled
    /\ \E m \in {"app", "video"} : mode' = m
    /\ (UNCHANGED <<appVars, storage, persisted, boot, prompt, stagedFile, tasks, nextId, aistudio, dragVars, ops>> /\ alert' = <<>> /\ returned' = None)

SetPrompt(prompts) ==
    /\ FormEnabled
    /\ \E p \in prompts : prompt' = p
    /\ (UNCHANGED <<appVars, storage, persisted, boot, mode, stagedFile, tasks, nextId, aistudio, dragVars, ops>> /\ alert' = <<>> /\ returned' = None)

handleFile(file) ==
    IF Accepted(file)
    THEN stagedFile' = Some(file) /\ alert' = <<>>
    ELSE alert' = <<"Please upload an image or PDF.">> /\ UNCHANGED stagedFile

StageFile(files) ==
    /\ FormEnabled
    /\ \E file \in files : handleFile(file)
    /\ (UNCHANGED <<appVars, storage, persisted, boot, mode, prompt, tasks, nextId, aistudio, dragVars, ops>> /\ returned' = None)

ClearFile ==
    /\ FormEnabled
    /\ stagedFile # None
    /\ stagedFile' = None
    /\ (UNCHANGED <<appVars, storage, persisted, boot, mode, prompt, tasks, nextId, aistudio, dragVars, ops>> /\ alert' = <<>> /\ returned' = None)

\* A click handler with no check that app mode has a file
handleGenerateClickWithoutFileCheck ==
    IF isGenerating \/ isFocused
    THEN (UNCHANGED <<appVars, storage, persisted, inputVars, tasks, nextId>>
          /\ alert' = <<>> /\ returned' = None)
    ELSE /\ handleGenerate(prompt, stagedFile, mode)
         /\ prompt' = <<>>
         /\ stagedFile' = None
         /\ UNCHANGED mode

\* InputArea is rendered with disabled={isFocused}
disabled == isFocused

handleGenerateClick ==
    IF isGenerating \/ disabled
    THEN (UNCHANGED <<appVars, storage, persisted, inputVars, tasks, nextId>> /\ alert' = <<>> /\ returned' = None)
    ELSE IF mode = "app" /\ stagedFile = None
    THEN /\ alert' = <<"Please upload a file to generate an app.">>
         /\ (UNCHANGED <<appVars, storage, persisted, inputVars, tasks, nextId>> /\ returned' = None)
    ELSE IF mode = "video" /\ Trim(prompt) = <<>> /\ stagedFile = None
    THEN /\ alert' = <<"Please provide a prompt or an image to generate a video.">>
         /\ (UNCHANGED <<appVars, storage, persisted, inputVars, tasks, nextId>> /\ returned' = None)
    ELSE /\ handleGenerate(prompt, stagedFile, mode)
         /\ prompt' = <<>>
         /\ stagedFile' = None
         /\ UNCHANGED mode

\* A click on Generate; ops counts the calls that reach handleGenerate
GenerateClickWithin(limit) ==
    /\ boot # "mount"
    /\ ops < limit
    /\ handleGenerateClick
    /\ ops' = ops + (Len(tasks') - Len(tasks))
    /\ UNCHANGED <<boot, aistudio, dragVars>>

GenerateClick == GenerateClickWithin(MaxOps)

\* if (!creation || !editablePrompt.trim() || isLoading) return
handleRegenerateClick(creation, editablePrompt) ==
    IF creation = None \/ Trim(editablePrompt) = <<>> \/ isGenerating
    THEN (UNCHANGED <<appVars, storage, persisted, tasks, nextId>> /\ alert' = <<>> /\ returned' = None)
    ELSE handleRegenerateVideo(editablePrompt, creation[1])

\* The regenerate button and the prompt field are shown for a video that is not loading;
\* the field starts as the creation's name and the user may edit it
RegenerateClick(prompts) ==
    /\ boot # "mount"
    /\ ops < MaxOps
    /\ ~isGenerating /\ activeCreation # None /\ activeCreation[1].type = "video"
    /\ \E editablePrompt \in prompts \cup {activeCreation[1].name} :
          handleRegenerateClick(activeCreation, editablePrompt)
    /\ ops' = ops + (Len(tasks') - Len(tasks))
    /\ UNCHANGED <<boot, inputVars, aistudio, dragVars>>

----------------------------------------------------------------------------
(* Sessions *)

InitialStorages ==
    { StorageNone, StorageCorrupt, StorageArray(<<>>),
      StorageArray(Serialize(<<SavedApp>>)),
      StorageArray(Serialize(<<SavedVideo, SavedApp>>)) }

\* The state after the first render, with what the browser holds in storage
InitIn(storages, hosts) ==
    /\ history = <<>>
    /\ activeCreation = None
    /\ isGenerating = FALSE
    /\ generationMode = "app"
    /\ storage \in storages
    /\ persisted = "none"
    /\ boot = "mount"
    /\ mode = "app"
    /\ prompt = <<>>
    /\ stagedFile = None
    /\ tasks = <<>>
    /\ returned = None
    /\ alert = <<>>
    /\ nextId = 1
    /\ aistudio \in hosts
    /\ ops = 0
    /\ dragItem = None
    /\ draggedIndex = None
    /\ dragOverIndex = None
    /\ grabbed = None

\* A visit with nothing or one video saved: the user generates and regenerates, and the
\* service answers in any way
InitGen == InitIn({StorageNone, StorageArray(Serialize(<<SavedVideo>>))}, BOOLEAN)

NextGen ==
    \/ InitHistory
    \/ SetMode
    \/ SetPrompt({<<"c">>})
    \/ StageFile({PngFile})
    \/ GenerateClick
    \/ RegenerateClick({<<"c">>})
    \/ TaskStep(AnyService)
    \/ Select
    \/ Reset

SpecGen == InitGen /\ [][NextGen]_vars

\* The same visit with a calm service: the user fills the form in any way
InitForm == InitIn({StorageNone, StorageArray(Serialize(<<SavedVideo>>))}, {FALSE})

NextForm ==
    \/ InitHistory
    \/ SetMode
    \/ SetPrompt(Prompts)
    \/ StageFile({PngFile, TextFile})
    \/ ClearFile
    \/ GenerateClick
    \/ RegenerateClick(Prompts)
    \/ TaskStep(CalmService)
    \/ Select
    \/ Reset

SpecForm == InitForm /\ [][NextForm]_vars

\* Any visit, in which the user imports, reorders, selects, and generates with a calm service
InitStore == InitIn(InitialStorages, {FALSE})

NextStore ==
    \/ InitHistory
    \/ \E results \in ExampleResults : ExamplesSettled(results)
    \/ Import(ImportObjects)
    \/ Reorder
    \/ Select
    \/ Reset
    \/ SetMode
    \/ StageFile({PngFile})
    \/ GenerateClick
    \/ RegenerateClick({<<"c">>})
    \/ TaskStep(CalmService)

SpecStore == InitStore /\ [][NextStore]_vars

\* Any visit in which the user works on the archive only: imports files, reorders,
\* selects and closes creations
NextArchive ==
    \/ InitHistory
    \/ \E results \in ExampleResults : ExamplesSettled(results)
    \/ Import(ImportObjects)
    \/ Reorder
    \/ Select
    \/ Reset

SpecArchive == InitStore /\ [][NextArchive]_vars

\* A visit in which the user may generate again: every user action the page offers while
\* a call is in flight, with a calm service
InitOverlap == InitIn({StorageNone, StorageArray(Serialize(<<SavedVideo>>))}, {FALSE})

NextOverlap ==
    \/ InitHistory
    \/ SetMode
    \/ StageFile({PngFile})
    \/ GenerateClickWithin(MaxCalls)
    \/ RegenerateClick({<<"c">>})
    \/ TaskStep(CalmService)
    \/ Import(ImportObjects)
    \/ Select
    \/ Reset

SpecOverlap == InitOverlap /\ [][NextOverlap]_vars

\* A first visit in which the service answers app requests with any short text
InitFence == InitIn({StorageNone}, {FALSE})

NextFence ==
    \/ InitHistory
    \/ SetMode
    \/ StageFile({PngFile})
    \/ GenerateClick
    \/ TaskStep(FenceService)
    \/ Reset

SpecFence == InitFence /\ [][NextFence]_vars

\* A visit in which the user exports creations, stored, example or just generated, and
\* imports the exported files again
InitExport == InitIn({StorageNone, StorageArray(Serialize(<<SavedVideo, SavedApp>>))}, {FALSE})

NextExport ==
    \/ InitHistory
    \/ \E results \in ExampleResults : ExamplesSettled(results)
    \/ SetMode
    \/ StageFile({PngFile})
    \/ GenerateClick
    \/ TaskStep(CalmService)
    \/ Select
    \/ Reset
    \/ ExportImport

SpecExport == InitExport /\ [][NextExport]_vars

\* A visit with two creations saved in which the user drags entries of the archive
\* strip; a hand that is dragging does nothing else, while pending calls go on
InitDrag == InitIn({StorageArray(Serialize(<<SavedVideo, SavedApp>>))}, {FALSE})

NextDrag ==
    \/ InitHistory
    \/ dragItem = None /\ StageFile({PngFile})
    \/ dragItem = None /\ GenerateClick
    \/ dragItem = None /\ Reset
    \/ TaskStep(CalmService)
    \/ DragStart
    \/ DragEnter
    \/ DragLeave
    \/ DragEnd

SpecDrag == InitDrag /\ [][NextDrag]_vars

\* A session of generate calls in which every awaited call settles: the promise of a
\* request, of a 10 second delay or of a download is resolved or rejected in the end
InitPoll == InitIn({StorageNone}, BOOLEAN)

NextPoll ==
    \/ InitHistory
    \/ SetMode
    \/ StageFile({PngFile})
    \/ GenerateClick
    \/ TaskStep(AnyService)
    \/ Reset

SpecPoll == InitPoll /\ [][NextPoll]_vars /\ WF_vars(TaskStep(AnyService))

----------------------------------------------------------------------------
(* The claims of the specification, each stated over the sessions above *)

\* The operation a returned call polled last, when it polled any
LastOperation == returned[1].operation[1]

EndsWith(s, m) == Len(s) >= Len(m) /\ SubSeq(s, Len(s) - Len(m) + 1, Len(s)) = m

\* C1: every generate or regenerate call that returns, after it made a creation or after
\* the service, the key check or the file conversion failed, leaves isGenerating false;
\* and when no call is in flight the flag is not stuck at true
C1_FinishedCallClearsGenerating ==
    /\ returned # None => ~isGenerating
    /\ tasks = <<>> => ~isGenerating

\* A generate call returned because the file conversion failed, with an event that has no
\* message for the catch block to read; the flag is false
C1_ConversionFailed ==
    /\ returned # None
    /\ returned[1].kind = "generate"
    /\ returned[1].error = Some(ProgressEvent)
    /\ ~isGenerating

\* C2: a video call returns with a creation only when the operation it polled last is
\* done and has a video uri; when that operation is done and has no uri the call fails
\* with an error, and history and activeCreation are what they were before that step
C2_DoneOnlyWithUri ==
    [][returned' # None /\ returned'[1].mode = "video" =>
          LET call == returned'[1] IN
          /\ call.outcome = "created" =>
                /\ call.operation # None
                /\ call.operation[1].done
                /\ Has(call.operation[1], "uri")
          /\ call.outcome # "nothing"
          /\ call.operation # None /\ call.operation[1].done
                /\ ~Has(call.operation[1], "uri") =>
                /\ call.outcome = "failed"
                /\ call.error # None
                /\ history' = history
                /\ activeCreation' = activeCreation]_vars

\* A video call returned after its operation was done without a uri
C2_DoneWithoutUri ==
    /\ returned # None
    /\ returned[1].operation = Some(NoLink)
    /\ returned[1].outcome = "failed"
    /\ returned[1].error =
          Some(Error(<<"Video generation succeeded, but no download link was found.">>))

\* The job of the returned call failed, and said why
JobFailed ==
    /\ returned # None
    /\ returned[1].operation # None
    /\ Has(LastOperation, "state")
    /\ LastOperation.state = "FAILED"
    /\ Has(LastOperation, "error")

\* C3: when the job reports k times that it is not finished and then that it failed, the
\* call fails with an error that carries the job's message, after exactly k delays of 10
\* seconds and with no status check after the failed report
C3_FailedCarriesJobMessage ==
    JobFailed =>
        /\ returned[1].outcome = "failed"
        /\ returned[1].error # None
        /\ EndsWith(returned[1].error[1].message, LastOperation.error)
        /\ returned[1].delays = returned[1].pendings

\* pending, pending, failed("quota"): the call failed with "quota" after two delays
C3_QuotaAfterTwoDelays ==
    /\ JobFailed
    /\ LastOperation.error = <<"quota">>
    /\ returned[1].pendings = 2
    /\ returned[1].delays = 2
    /\ returned[1].error = Some(Error(<<"Video generation failed: ", "quota">>))

\* The payload lacks a name, a type, or both html and videoUrl, or is no JSON object
Lacking(text) ==
    \/ text.kind # "object"
    \/ ~Has(text.obj, "name")
    \/ ~Has(text.obj, "type")
    \/ ~Has(text.obj, "html") /\ ~Has(text.obj, "videoUrl")

ImportErrors == {<<"Invalid creation file format.">>, <<"Failed to import creation.">>}

\* C4: an import of a payload that lacks a name, a type, or both html and videoUrl, or
\* that cannot be parsed, shows an error to the user and leaves history and
\* activeCreation exactly as they were
C4_LackingImportRejected ==
    [][\A text \in ImportTexts(history, ImportObjects) :
          Lacking(text) /\ handleImportFile(text) =>
              /\ alert' \in ImportErrors
              /\ history' = history
              /\ activeCreation' = activeCreation]_vars

\* A payload was rejected while the history held entries
C4_Rejected ==
    /\ alert = <<"Invalid creation file format.">>
    /\ history # <<>>
    /\ activeCreation = None
    /\ ops = 1

\* The payload has a name, a type and html or a videoUrl
Complete(text) ==
    /\ text.kind = "object"
    /\ Has(text.obj, "name") /\ text.obj.name # <<>>
    /\ Has(text.obj, "type")
    /\ Has(text.obj, "html") \/ Has(text.obj, "videoUrl")

\* C5: an import of a valid payload whose id is the id of an entry of history leaves
\* history as it is; one with a new id or with none is put in front of history, once,
\* under its own id or under a fresh id that no entry has
C5_ImportDeduplicates ==
    [][\A text \in ImportTexts(history, ImportObjects) :
          Complete(text) /\ handleImportFile(text) =>
              IF Has(text.obj, "id") /\ text.obj.id \in Ids(history)
              THEN history' = history
              ELSE /\ Len(history') = Len(history) + 1
                   /\ Tail(history') = history
                   /\ Head(history').id \notin Ids(history)
                   /\ Has(text.obj, "id") => Head(history').id = text.obj.id
                   /\ Head(history').name = text.obj.name]_vars

\* A payload with the id of a saved entry, and another name, was imported: it is shown,
\* and history has the saved entry only
C5_DuplicateImported ==
    /\ activeCreation # None
    /\ activeCreation[1].id = SavedApp.id
    /\ activeCreation[1].name = <<"art">>
    /\ Len(history) = 1
    /\ history[1].id = SavedApp.id
    /\ history[1].name = SavedApp.name

\* C6: when a non-empty history was written to storage, loading the storage as startup
\* does gives, at every position, the entry of history with the same id, name,
\* timestamp, type, html and originalImage, and without videoUrl
C6_RoundTrip ==
    persisted = "ok" =>
        LET loaded == LoadedHistory(storage) IN
        /\ Len(loaded) = Len(history)
        /\ \A i \in DOMAIN history : loaded[i] = Without(history[i], "videoUrl")

\* What the persist effect stores of one entry, field by field
StoredOf(item, c) ==
    /\ DOMAIN item = DOMAIN c \ {"videoUrl"}
    /\ \A f \in DOMAIN item \ {"timestamp"} : item[f] = c[f]
    /\ item.timestamp = DateToJSON(c.timestamp)

\* C7: after a change of history whose write succeeded, storage holds the whole history
\* in its order, each entry without videoUrl; no stored entry has a videoUrl; and no write
\* replaces the stored history by an empty list
C7_StoredIsHistoryWithoutVideoUrl ==
    /\ [](persisted = "ok" =>
             /\ storage.kind = "array"
             /\ Len(storage.items) = Len(history)
             /\ \A i \in DOMAIN history : StoredOf(storage.items[i], history[i]))
    /\ [](\A i \in DOMAIN storage.items : ~Has(storage.items[i], "videoUrl"))
    /\ [][storage' # storage => storage'.kind = "array" /\ storage'.items # <<>>]_vars

\* A history of two entries, the first a video with its videoUrl, was written
C7_VideoStored ==
    /\ persisted = "ok"
    /\ Len(history) = 2
    /\ Has(history[1], "videoUrl")
    /\ storage.items[1].id = history[1].id

\* h and g have the same entries, each as often
SameEntries(h, g) ==
    /\ Len(h) = Len(g)
    /\ \A x \in {h[i] : i \in DOMAIN h} :
          Cardinality({i \in DOMAIN h : h[i] = x}) = Cardinality({i \in DOMAIN g : g[i] = x})

\* C8: a reorder with any permutation of history makes history that permutation, with
\* the same entries, none added and none dropped, and leaves activeCreation and
\* isGenerating as they were
C8_ReorderVerbatim ==
    [][\A newHistory \in PermutationsOf(history) :
          handleReorderHistory(newHistory) =>
              /\ history' = newHistory
              /\ SameEntries(history', history)
              /\ activeCreation' = activeCreation
              /\ isGenerating' = isGenerating]_vars

\* The two saved entries were swapped, and written in the new order
C8_Swapped ==
    /\ Len(history) = 2
    /\ history[1].id = SavedApp.id
    /\ history[2].id = SavedVideo.id
    /\ persisted = "ok"
    /\ storage.items[1].id = SavedApp.id

----------------------------------------------------------------------------

\* The app is idle: it neither generates nor shows a creation, so the input area is shown
Idle == ~isGenerating /\ activeCreation = None

NonBlank(s) == \E i \in DOMAIN s : s[i] \notin {" ", "\n"}

\* The click hands the request to handleGenerate
Forwarded == handleGenerateClick /\ Len(tasks') = Len(tasks) + 1

\* C9: a click on Generate is forwarded to handleGenerate exactly when the app is idle
\* and the mode is app with a staged file, or the mode is video with a prompt that is
\* not blank or with a staged file
C9_ForwardedExactlyWhenComplete ==
    (ENABLED Forwarded) <=>
        /\ Idle
        /\ \/ mode = "app" /\ stagedFile # None
           \/ mode = "video" /\ (NonBlank(prompt) \/ stagedFile # None)

\* A video request with an empty prompt and a file was forwarded
C9_FileOnlyVideo ==
    /\ tasks # <<>>
    /\ tasks[1].mode = "video"
    /\ tasks[1].prompt = <<>>
    /\ tasks[1].file = Some(PngFile)

\* The returned call failed because generateVideos or getVideosOperation threw an error
\* that says the entity was not found
EntityNotFoundThrown ==
    /\ returned # None
    /\ returned[1].mode = "video"
    /\ returned[1].rejection # None
    /\ returned[1].rejection[1].at \in {"submit", "poll"}
    /\ returned[1].rejection[1].error.isError
    /\ Includes(returned[1].rejection[1].error.message, EntityNotFound)

CredentialError == Error(<<ApiKeyNotFound, ". Please re-select your API key and try again.">>)

\* C10, as the specification states it: when the video transport throws entity not
\* found, at submit or at a poll, the controller gets the credential error and opens the
\* key dialog; after any other failure it does not
C10_EntityNotFoundReselects ==
    returned # None =>
        IF EntityNotFoundThrown
        THEN returned[1].error = Some(CredentialError) /\ returned[1].reselect
        ELSE ~returned[1].reselect

\* C10, amended: when the video transport throws entity not found, at submit or at a
\* poll, the controller gets the credential error, and it opens the key dialog exactly
\* when the host provides window.aistudio; no failure whose message lacks "API key not
\* found" opens the dialog
C10_ReselectsWhereHostAllows ==
    returned # None =>
        /\ EntityNotFoundThrown =>
              /\ returned[1].error = Some(CredentialError)
              /\ returned[1].reselect <=> aistudio
        /\ returned[1].reselect =>
              /\ aistudio
              /\ returned[1].error # None
              /\ Has(returned[1].error[1], "message")
              /\ Includes(returned[1].error[1].message, ApiKeyNotFound)

\* getVideosOperation threw entity not found at a poll, and the key dialog was opened
C10_PollThrewEntityNotFound ==
    /\ EntityNotFoundThrown
    /\ returned[1].rejection[1].at = "poll"
    /\ returned[1].delays = 1
    /\ returned[1].reselect

----------------------------------------------------------------------------

\* The creations the session holds: the entries of history and the active creation
Held == {history[i] : i \in DOMAIN history} \cup {activeCreation[i] : i \in DOMAIN activeCreation}

\* Exactly one of html and videoUrl is populated, the one that goes with the type
OneOfHtmlVideoUrl(c) ==
    \/ c.type = "app" /\ StrTruthy(c, "html") /\ ~Has(c, "videoUrl")
    \/ c.type = "video" /\ TagTruthy(c, "videoUrl") /\ ~Has(c, "html")

\* C11: in every reachable state every entry of history, and the active creation, has
\* exactly one of html and videoUrl, the one of its type, also when it was loaded from
\* storage, fetched as an example or imported
C11_ExactlyOneOfHtmlVideoUrl == \A c \in Held : OneOfHtmlVideoUrl(c)

\* C12: at any time at most one generation is in flight, whatever the user does
C12_OneGenerationInFlight == Len(tasks) <= 1

\* C13: activeCreation is null or one of the entries of history, in every state: each
\* step of the model applies all the state updates of one handler run
C13_ActiveIsInHistory ==
    activeCreation # None => \E i \in DOMAIN history : history[i] = activeCreation[1]

\* The ids of the examples whose fetch succeeded
FetchedIds(results) == {ExampleData(i).id : i \in {j \in 1..NumExamples : results[j] = "ok"}}

\* C14: when the stored history is missing, unparseable or empty, startup fetches the
\* three examples, and every example whose fetch succeeds is in history afterwards, also
\* when other fetches give a response that is not OK, a network error or invalid JSON;
\* startup ends in every case
C14_FetchedExamplesLoaded ==
    [][\A results \in ExampleResults :
          ExamplesSettled(results) =>
              /\ boot' = "done"
              /\ FetchedIds(results) \subseteq Ids(history')]_vars

\* C15: every app-mode generate call that returns either has put a new app creation with
\* the returned html in front of history and made it active, or has shown an error to
\* the user; never neither and never both
C15_CreatedOrAlerted ==
    returned # None /\ returned[1].kind = "generate" /\ returned[1].mode = "app" =>
        LET created == /\ returned[1].outcome = "created"
                       /\ history # <<>>
                       /\ activeCreation = Some(history[1])
                       /\ history[1].type = "app"
                       /\ StrTruthy(history[1], "html")
        IN (created /\ alert = <<>>) \/ (~created /\ alert # <<>>)

\* The text has a fence marker at its start or at its end, whitespace aside
FenceAtStart(text) == LET t == DropSpace(text) IN t # <<>> /\ Head(t) = Fence
FenceAtEnd(text) == LET t == DropSpaceEnd(text) IN t # <<>> /\ t[Len(t)] = Fence

\* The html the call that returned got from bringToLife
ReturnedHtml == IF returned[1].outcome = "created" THEN activeCreation[1].html ELSE <<>>

\* C16: for every response of generateContent that is wrapped in a code fence, with or
\* without whitespace around it, the html that bringToLife returns has no fence marker
\* at its start or end; a response without a fence is returned as it is; and stripping
\* what was stripped changes nothing
C16_FencesStripped ==
    returned # None /\ returned[1].response # None =>
        LET text == returned[1].response[1] IN
        /\ FenceAtStart(text) \/ FenceAtEnd(text) =>
              ~FenceAtStart(ReturnedHtml) /\ ~FenceAtEnd(ReturnedHtml)
        /\ text # <<>> /\ (\A i \in DOMAIN text : text[i] # Fence) => ReturnedHtml = text
        /\ StripFence(ReturnedHtml) = ReturnedHtml

\* The persist effect ran in this step and its write failed
WriteFailed == persisted' = "failed" /\ (persisted # "failed" \/ history' # history)

\* C17: a write of the history that fails is caught and nothing else: the step shows no
\* error, the handler's updates of history, activeCreation and isGenerating stand (a call
\* that returns in that step has made its creation and cleared the flag), the history in
\* memory is kept, and storage keeps what it held
C17_WriteFailureIsSilent ==
    [][WriteFailed =>
          /\ alert' = <<>>
          /\ history' # <<>>
          /\ storage' = storage
          /\ returned' # None =>
                /\ returned'[1].outcome = "created"
                /\ activeCreation' = Some(history'[1])
                /\ history' = <<history'[1]>> \o history
                /\ ~isGenerating']_vars

\* A generation returned with its creation while the write of the history failed
C17_CreatedUnwritten ==
    /\ persisted = "failed"
    /\ returned # None
    /\ returned[1].outcome = "created"
    /\ Len(history) = 3
    /\ activeCreation = Some(history[1])
    /\ storage = StorageArray(Serialize(Tail(history)))
    /\ alert = <<>>

\* C18: a generate or regenerate call that returns with a creation has put it at index 0
\* of history with the previous history after it, entry for entry; the creation is the
\* active one, its id is the id of no previous entry and its type is the mode asked for
C18_NewCreationPrepended ==
    [][returned' # None /\ returned'[1].outcome = "created" =>
          /\ history' # <<>>
          /\ Tail(history') = history
          /\ activeCreation' = Some(Head(history'))
          /\ Head(history').id \notin Ids(history)
          /\ Head(history').type = returned'[1].mode]_vars

\* A regeneration returned with its video in front of the stored entry it was made from
C18_RegeneratedInFront ==
    /\ returned # None
    /\ returned[1].kind = "regenerate"
    /\ returned[1].outcome = "created"
    /\ Len(history) >= 2
    /\ history[1].type = "video"
    /\ history[2].id = SavedVideo.id
    /\ activeCreation = Some(history[1])

Started(kind) == Len(tasks') = Len(tasks) + 1 /\ tasks'[Len(tasks')].kind = kind

\* A pending call of the given kind went on to its next await in this step
Resumed(kind) ==
    /\ Len(tasks') = Len(tasks)
    /\ \E t \in DOMAIN tasks : tasks'[t] # tasks[t] /\ tasks[t].kind = kind

\* A call of the given kind returned in this step with or without a creation
Ended(kind, created) ==
    /\ returned' # None
    /\ returned'[1].kind = kind
    /\ (returned'[1].outcome = "created") = created

\* C20: regenerate leaves the active creation in place: the step that starts it and the
\* steps that resume it change neither activeCreation nor history, a regeneration that
\* fails returns with both as they were, and one that succeeds makes its new video the
\* active creation; the step that starts a generate sets activeCreation to null
C20_RegenerateKeepsActive ==
    [][/\ Started("regenerate") =>
             activeCreation' # None /\ UNCHANGED <<activeCreation, history>>
       /\ Resumed("regenerate") => UNCHANGED <<activeCreation, history>>
       /\ Ended("regenerate", FALSE) => UNCHANGED <<activeCreation, history>>
       /\ Ended("regenerate", TRUE) =>
             /\ activeCreation' = Some(Head(history'))
             /\ Head(history').type = "video"
             /\ TagTruthy(Head(history'), "videoUrl")
       /\ Started("generate") => activeCreation' = None]_vars

\* A regeneration failed and the creation it was started from is still the active one
C20_FailedRegenerationKeptActive ==
    /\ returned # None
    /\ returned[1].kind = "regenerate"
    /\ returned[1].outcome # "created"
    /\ activeCreation # None
    /\ activeCreation[1].id = SavedVideo.id
    /\ alert # <<>>

\* A video job of a pending call has reported done
JobDone == \E t \in DOMAIN tasks : tasks[t].operation # None /\ tasks[t].operation[1].done

\* C21: a submitted video job is polled again after a delay for as long as it reports not
\* done, whatever the number of reports: a call that returns without a rejected await
\* returns on a report that is done, after one delay for each report that was not; and a
\* job that has reported done leads to the return of the call with isGenerating false
C21_PolledUntilDone ==
    /\ [][/\ \A t \in DOMAIN tasks :
                tasks[t].pc \in {"submit", "poll"} /\ Len(tasks') = Len(tasks)
                                                   /\ tasks'[t] # tasks[t] =>
                   /\ tasks'[t].operation # None
                   /\ tasks'[t].pc = (IF tasks'[t].operation[1].done THEN "download" ELSE "poll")
                   /\ tasks'[t].delays = tasks[t].delays + (IF tasks[t].pc = "poll" THEN 1 ELSE 0)
          /\ returned' # None /\ returned'[1].operation # None /\ returned'[1].rejection = None =>
                /\ returned'[1].operation[1].done
                /\ returned'[1].delays = returned'[1].pendings]_vars
    /\ JobDone ~> (returned # None /\ returned[1].mode = "video" /\ ~isGenerating)

\* A video generate returned with its video after as many delays as the job was allowed
\* reports that are not done
C21_DoneAfterEveryDelay ==
    /\ returned # None
    /\ returned[1].kind = "generate"
    /\ returned[1].mode = "video"
    /\ returned[1].outcome = "created"
    /\ returned[1].delays = MaxPolls
    /\ returned[1].operation = Some(Succeeded)
    /\ ~isGenerating

\* The step is a click of the user that started a call
UserSubmitted ==
    \/ handleGenerateClick
    \/ /\ activeCreation # None
       /\ \E editablePrompt \in {<<"c">>, activeCreation[1].name} :
             handleRegenerateClick(activeCreation, editablePrompt)

\* C22: nothing is retried: a pending call comes to its generation request (the app
\* request or the submission of the video job) only from the awaits before it, so it
\* sends one at most; a call that fails is over in that step, whatever the failure; and
\* a call begins only in a step that is a click of the user on Generate or Regenerate
C22_NoAutomaticRetry ==
    [][/\ \A t \in DOMAIN tasks :
             /\ Len(tasks') = Len(tasks)
             /\ tasks'[t] # tasks[t]
             /\ tasks'[t].pc \in {"request", "submit"}
             => tasks[t].pc \in {"convert", "keycheck"}
       /\ returned' # None => Len(tasks') = Len(tasks) - 1
       /\ Len(tasks') > Len(tasks) =>
             /\ Len(tasks') = Len(tasks) + 1
             /\ returned' = None
             /\ UserSubmitted]_vars

\* A video generate failed at its submission with the credential error, the key dialog
\* was opened, and no call is pending
C22_CredentialFailureEndedCall ==
    /\ returned # None
    /\ returned[1].outcome = "failed"
    /\ returned[1].error = Some(CredentialError)
    /\ returned[1].rejection # None
    /\ returned[1].rejection[1].at = "submit"
    /\ returned[1].reselect
    /\ tasks = <<>>
    /\ ~isGenerating

\* The awaits at which a call has a request, a job or a download with the service
InFlight == {"request", "submit", "poll", "download"}

\* C23: whenever isGenerating is false, no call is at its app request, at the submission
\* or a poll of its video job, or at the download of its video
C23_GeneratingWhileInFlight ==
    ~isGenerating => \A t \in DOMAIN tasks : tasks[t].pc \notin InFlight

\* C24: with no creation active and isGenerating false, as handleReset leaves them, the
\* return of a call that was pending changes neither the active creation nor history:
\* both stay as they are until the user selects, imports, generates or regenerates
C24_ResetStaysReset ==
    [][Idle /\ returned' # None => UNCHANGED <<activeCreation, isGenerating, history>>]_vars

\* C25: the file that export makes of the creation shown, of type app or video, is
\* accepted by import, and importing it while history holds that creation adds no entry
C25_ExportImportRoundTrip ==
    [][ExportImport /\ (\E i \in DOMAIN history : history[i] = activeCreation[1]) =>
          /\ alert' = <<>>
          /\ activeCreation' # None
          /\ history' = history]_vars

\* C26: no two entries of history have the same id
C26_IdsDistinct ==
    \A i, j \in DOMAIN history : history[i].id = history[j].id => i = j

\* A file with the id of the second of two stored creations was imported: it is shown,
\* and history still holds each id once
C26_SecondIdImported ==
    /\ Len(history) = 2
    /\ activeCreation # None
    /\ activeCreation[1].id = history[2].id
    /\ activeCreation[1] # history[2]
    /\ history[1].id # history[2].id

\* The positions at which history holds the creation the drag was started on
GrabbedAt == {i \in DOMAIN history : history[i] = grabbed[1]}

\* C27: a drag that ends over a position other than the one its creation has in the
\* history shown at that moment submits that history with the creation taken out and
\* put at the position, the other entries in the order they had, also when a creation
\* was prepended since the drag started; a drag that ends over no position, or over
\* the position of its creation, leaves history as it is
C27_DraggedCreationMoved ==
    [][DragEnd =>
          \A i \in GrabbedAt :
             IF dragOverIndex # None /\ dragOverIndex[1] # i
             THEN /\ Len(history') = Len(history)
                  /\ history'[dragOverIndex[1]] = grabbed[1]
                  /\ Remove(history', dragOverIndex[1]) = Remove(history, i)
             ELSE history' = history]_vars

====
